---- MODULE Spec2Model ----
(***************************************************************************)
(* FailWhale (src/main.js): the workflow monitoring loop of the tray app.  *)
(* A timer starts checkWorkflows cycles; each cycle probes the network,    *)
(* walks the live `sources` array, fetches the workflow runs of each       *)
(* source with retries, compares the latest run with the record kept in    *)
(* the `workflowStates` map and calls getRandomGif/createGifWindow on a    *)
(* transition.  The add-source / remove-source IPC handlers run between    *)
(* the suspension points (awaits) of the cycles.                           *)
(***************************************************************************)
EXTENDS Integers, Sequences, FiniteSets, TLC

VARIABLES
    sources,         \* main.js:10   the module-level array of {url, added}
    workflowStates,  \* main.js:11   Map: sourceKey -> {latestRunId, status, conclusion[, notifiedStart]}
    file,            \* main.js:14   content of sources.json
    now,             \* the wall clock read by new Date() in add-source
    cycle,           \* one record per running/idle execution of checkWorkflows
    last             \* what the step just taken did (observation of one handler step)

vars == <<sources, workflowStates, file, now, cycle, last>>

----------------------------------------------------------------------------
(* Bounds of the model *)

MaxCycles == 2      \* executions of checkWorkflows that may be in flight together
MaxSources == 2     \* length of the sources array
MaxClock == 2       \* add-source calls accepted in one behaviour (clock readings)
MaxRetries == 7     \* largest `retries` argument of a direct fetchWorkflowRuns call
MaxSegments == 3    \* path segments of a string given to extractRepoInfo

(* Program constants *)

DefaultRetries == 3     \* fetchWorkflowRuns(owner, repo, retries = 3)
BackoffBase == 1000     \* 1000 * Math.pow(2, attempt - 1)
BackoffCap == 30000     \* Math.min(..., 30000)
ServerErrorFloor == 500 \* response.status < 500

Cycles == 1..MaxCycles

(* JavaScript's null and undefined; records, so that they compare with records *)
Null == [null |-> TRUE]
Undefined == [undefined |-> TRUE]

----------------------------------------------------------------------------
(* Strings are sequences of one-character strings. *)

GithubCom == <<"g","i","t","h","u","b",".","c","o","m">>
GitlabCom == <<"g","i","t","l","a","b",".","c","o","m">>
Https == <<"h","t","t","p","s",":","/","/">>

(* The url strings the handlers are called with, by name. *)
Urls == {"https://github.com/a/b", "github.com/a/b/tree/main",
         "https://github.com/c/d", "https://gitlab.com/a/b",
         "https://github.com/a"}

UrlText(u) ==
    CASE u = "https://github.com/a/b"   -> Https \o GithubCom \o <<"/","a","/","b">>
      [] u = "github.com/a/b/tree/main" -> GithubCom \o <<"/","a","/","b","/","t","r","e","e","/","m","a","i","n">>
      [] u = "https://github.com/c/d"   -> Https \o GithubCom \o <<"/","c","/","d">>
      [] u = "https://gitlab.com/a/b"   -> Https \o GitlabCom \o <<"/","a","/","b">>
      [] u = "https://github.com/a"     -> Https \o GithubCom \o <<"/","a">>

(* [^\/]+ at position i of s: the longest run of non-slash characters      *)
(* starting at i (greedy; the empty run when s[i] is a slash or i is past  *)
(* the end).                                                               *)
RECURSIVE NonSlashRun(_, _)
NonSlashRun(s, i) ==
    IF i > Len(s) \/ s[i] = "/" THEN <<>>
    ELSE <<s[i]>> \o NonSlashRun(s, i + 1)

(* Does the literal lit occur in s at position i? *)
OccursAt(s, lit, i) ==
    /\ i >= 1
    /\ i + Len(lit) - 1 <= Len(s)
    /\ \A j \in 1..Len(lit) : s[i + j - 1] = lit[j]

(* One attempt of /github\.com\/([^\/]+)\/([^\/]+)/ anchored at position i. *)
MatchAt(s, i) ==
    LET o == i + Len(GithubCom) + 1
        owner == NonSlashRun(s, o)
        r == o + Len(owner) + 1
        repo == NonSlashRun(s, r)
    IN  IF /\ OccursAt(s, GithubCom \o <<"/">>, i)
           /\ Len(owner) >= 1
           /\ OccursAt(s, <<"/">>, o + Len(owner))
           /\ Len(repo) >= 1
        THEN [owner |-> owner, repo |-> repo]
        ELSE Null

(* String.prototype.match without the g flag: the leftmost match. *)
RECURSIVE MatchFrom(_, _)
MatchFrom(s, i) ==
    IF i > Len(s) THEN Null
    ELSE IF MatchAt(s, i) # Null THEN MatchAt(s, i)
    ELSE MatchFrom(s, i + 1)

(* The body of extractRepoInfo (main.js:182-186) on the text of the url *)
Match(s) == MatchFrom(s, 1)

extractRepoInfo(githubUrl) == Match(UrlText(githubUrl))

(* `${repoInfo.owner}/${repoInfo.repo}` *)
SourceKey(repoInfo) == repoInfo.owner \o <<"/">> \o repoInfo.repo

----------------------------------------------------------------------------
(* The GitHub API as the client sees it *)

RunIds == {5, 6}
Statuses == {"queued", "in_progress", "completed"}
Conclusions == {"success", "failure", "cancelled"}

(* A workflow run as /actions/runs reports it: conclusion is null until the *)
(* run has completed.                                                      *)
WorkflowRuns ==
    [id : RunIds, status : Statuses \ {"completed"}, conclusion : {"null"}]
    \cup [id : RunIds, status : {"completed"}, conclusion : Conclusions]

(* Errors: the three properties the catch block reads. *)
DnsError == [code |-> "ENOTFOUND", name |-> "Error",
             message |-> <<"getaddrinfo", "ENOTFOUND", "api.github.com">>]
AbortError == [code |-> "20", name |-> "AbortError",
               message |-> <<"This", "operation", "was", "aborted">>]
FetchFailed == [code |-> "undefined", name |-> "TypeError",
                message |-> <<"fetch", "failed">>]
(* The SyntaxError with which response.json() rejects a body that does not *)
(* parse.  The runtime writes the message and quotes the text of the body   *)
(* in it: Unexpected token 'e', "fetch failed" is not valid JSON.  A        *)
(* runtime that does not quote the text behaves, for the catch block, as   *)
(* this one does on a text without the words the catch block looks for.    *)
JsonSyntaxError(text) ==
    [code |-> "undefined", name |-> "SyntaxError",
     message |-> <<"Unexpected", "token">> \o text
                     \o <<"is", "not", "valid", "JSON">>]
(* new Error(`GitHub API rate limited: ${response.status}`) *)
RateLimitedError(status) ==
    [code |-> "undefined", name |-> "Error",
     message |-> <<"GitHub", "API", "rate", "limited:", ToString(status)>>]
(* new Error(`GitHub API error: ${response.status}`) *)
ApiError(status) ==
    [code |-> "undefined", name |-> "Error",
     message |-> <<"GitHub", "API", "error:", ToString(status)>>]

(* Texts of a 200 response that are not JSON: an HTML page, and a text     *)
(* that holds the words main.js:217 looks for in the message of an error.  *)
BodyTexts == {<<"<html>">>, <<"fetch", "failed">>}

(* A body that does not parse, with its text *)
MalformedBodies == {[malformed |-> TRUE, text |-> t] : t \in BodyTexts}

(* The JavaScript value {}: truthy, not an array, without length or [0] *)
EmptyObject == [object |-> TRUE]

(* The body {"workflow_runs": {}}: the value is present and truthy but is  *)
(* not a list.  The isArray field sets the record apart from the bodies    *)
(* that hold a list.                                                       *)
NonListBody == [workflow_runs |-> EmptyObject, isArray |-> FALSE]

(* What one await fetch(url) + response.json() of fetchWorkflowRuns can     *)
(* meet: a thrown error, a non-ok status, a body that does not parse, a    *)
(* body without workflow_runs, a body whose workflow_runs is not a list,   *)
(* or a body with a run list (newest first; only index 0 is ever read).    *)
ThrownResponses ==
    {[kind |-> "throw", err |-> e] : e \in {DnsError, AbortError, FetchFailed}}
StatusResponses ==
    {[kind |-> "status", status |-> st] : st \in {403, 404, 500}}
BodyResponses ==
    {[kind |-> "body", status |-> 200, body |-> b] :
        b \in MalformedBodies \cup {[message |-> "no list"], NonListBody}
              \cup {[workflow_runs |-> l] :
                      l \in {<<>>} \cup {<<r>> : r \in WorkflowRuns}}}
Responses == ThrownResponses \cup StatusResponses \cup BodyResponses

(* String.prototype.includes, on word sequences *)
Includes(msg, needle) ==
    \E i \in 1..(Len(msg) - Len(needle) + 1) :
        \A j \in 1..Len(needle) : msg[i + j - 1] = needle[j]

(* Variants of the classification, as slips of main.js:217 would make it *)
isNetworkError_NoAbort(err) ==
    \/ err.code = "ENOTFOUND"
    \/ Includes(err.message, <<"fetch", "failed">>)

isNetworkError_AnyApiError(err) ==
    \/ err.code = "ENOTFOUND"
    \/ err.name = "AbortError"
    \/ Includes(err.message, <<"fetch", "failed">>)
    \/ Includes(err.message, <<"API", "error:">>)

(* main.js:217 *)
isNetworkError(err) ==
    \/ err.code = "ENOTFOUND"
    \/ err.name = "AbortError"
    \/ Includes(err.message, <<"fetch", "failed">>)

Min(a, b) == IF a <= b THEN a ELSE b

(* A variant of the delay, as an off-by-one in the exponent would make it *)
BackoffDelay_ExponentAttempt(attempt) ==
    Min(BackoffBase * 2 ^ attempt, BackoffCap)

(* main.js:225 Math.min(1000 * Math.pow(2, attempt - 1), 30000) *)
BackoffDelay(attempt) == Min(BackoffBase * 2 ^ (attempt - 1), BackoffCap)

(* The try block of one attempt (main.js:191-214): the value returned, or  *)
(* the error thrown into the catch block.                                  *)
TryAttempt(resp) ==
    IF resp.kind = "throw" THEN [threw |-> TRUE, err |-> resp.err]
    ELSE IF resp.kind = "status" THEN
        \* !response.ok
        IF resp.status = 403
        THEN [threw |-> TRUE, err |-> RateLimitedError(resp.status)]
        ELSE [threw |-> TRUE, err |-> ApiError(resp.status)]
    ELSE IF "malformed" \in DOMAIN resp.body THEN
        \* await response.json() rejects
        [threw |-> TRUE, err |-> JsonSyntaxError(resp.body.text)]
    ELSE IF "isArray" \in DOMAIN resp.body THEN
        \* data.workflow_runs is truthy: `||` yields it as it is
        [threw |-> FALSE, value |-> resp.body.workflow_runs]
    ELSE IF "workflow_runs" \in DOMAIN resp.body THEN
        [threw |-> FALSE, runs |-> resp.body.workflow_runs]
    ELSE \* data.workflow_runs || []
        [threw |-> FALSE, runs |-> <<>>]

(* Variants of the catch block, as slips of main.js:219-222 would make it: *)
(* the test of the last attempt is missing; the last error is rethrown.    *)
CatchAttempt_NoLastTest(err, attempt, retries) ==
    IF isNetworkError(err)
    THEN [returns |-> FALSE, delay |-> BackoffDelay(attempt)]
    ELSE [returns |-> TRUE, runs |-> <<>>]

CatchAttempt_Rethrow(err, attempt, retries) ==
    IF attempt = retries THEN [returns |-> FALSE, error |-> err]
    ELSE IF isNetworkError(err)
    THEN [returns |-> FALSE, delay |-> BackoffDelay(attempt)]
    ELSE [returns |-> TRUE, runs |-> <<>>]

(* The catch block (main.js:216-232): return [] or sleep and loop.  An     *)
(* outcome with an `error` field would be an error leaving the function;   *)
(* the catch block has none.                                               *)
CatchAttempt(err, attempt, retries) ==
    IF attempt = retries THEN [returns |-> TRUE, runs |-> <<>>]
    ELSE IF isNetworkError(err)
    THEN [returns |-> FALSE, delay |-> BackoffDelay(attempt)]
    ELSE [returns |-> TRUE, runs |-> <<>>]

(* Does the outcome of an iteration leave fetchWorkflowRuns as an error? *)
Throws(out) == "error" \in DOMAIN out

(* Is the value that leaves fetchWorkflowRuns something else than a list? *)
ReturnsNonList(out) == "value" \in DOMAIN out

(* One iteration of the for loop of fetchWorkflowRuns, given the response: *)
(* it returns a list (`runs`) or whatever else the body held (`value`),    *)
(* or sleeps.                                                              *)
FetchAttempt(resp, attempt, retries) ==
    LET t == TryAttempt(resp)
    IN  IF t.threw THEN CatchAttempt(t.err, attempt, retries)
        ELSE IF "value" \in DOMAIN t THEN [returns |-> TRUE, value |-> t.value]
        ELSE [returns |-> TRUE, runs |-> t.runs]

----------------------------------------------------------------------------
(* The network probe (main.js:238-253) *)

ProbeResponses ==
    {[kind |-> "status", status |-> st] : st \in {200, 404, 500, 503}}
    \cup {[kind |-> "throw", err |-> e] : e \in {AbortError, FetchFailed}}

(* A variant of the status test: `<=` where the code has `<` *)
isNetworkAvailable_Lte(resp) ==
    IF resp.kind = "throw" THEN FALSE
    ELSE resp.status <= ServerErrorFloor

isNetworkAvailable(resp) ==
    IF resp.kind = "throw" THEN FALSE
    ELSE resp.status < ServerErrorFloor

----------------------------------------------------------------------------
(* getRandomGif (main.js:16-36), given what the Giphy request meets *)

GiphyResponses ==
    {[kind |-> "throw"], [kind |-> "status", ok |-> FALSE],
     [kind |-> "body", ok |-> TRUE, images |-> [other |-> TRUE]],
     [kind |-> "body", ok |-> TRUE,
      images |-> [downsized_medium |-> [url |-> "gif"]]]}

getRandomGif(resp) ==
    IF resp.kind = "body" /\ "downsized_medium" \in DOMAIN resp.images
    THEN [url |-> resp.images.downsized_medium.url]
    ELSE [url |-> ""]

----------------------------------------------------------------------------
(* The workflowStates map: a function whose domain is the set of keys *)

EmptyMap == [k \in {} |-> Null]

MapGet(m, k) == IF k \in DOMAIN m THEN m[k] ELSE Undefined

MapSet(m, k, v) == [x \in DOMAIN m \cup {k} |-> IF x = k THEN v ELSE m[x]]

MapDelete(m, k) == [x \in DOMAIN m \ {k} |-> m[x]]

(* The three records checkWorkflows stores (main.js:276, 293, 309). *)
SeenRecord(run) ==
    [latestRunId |-> run.id, status |-> run.status, conclusion |-> run.conclusion]

StartedRecord(run) ==
    [latestRunId |-> run.id, status |-> run.status, conclusion |-> run.conclusion,
     notifiedStart |-> TRUE]

(* Variants of the decision on a known repository, as slips of            *)
(* main.js:284-314 would make it.                                          *)
DecideKnown_SuccessOnly(previousState, latestRun) ==
    IF latestRun.id # previousState.latestRunId
    THEN IF latestRun.status # "completed"
         THEN [act |-> "gif", tag |-> "lets get started",
               record |-> StartedRecord(latestRun)]
         ELSE [act |-> "none"]
    ELSE IF previousState.status # "completed" /\ latestRun.status = "completed"
    THEN [act |-> "gif",
          tag |-> IF latestRun.conclusion # "failure" THEN "success" ELSE "failure",
          record |-> SeenRecord(latestRun)]
    ELSE [act |-> "none"]

DecideKnown_InProgressOnly(previousState, latestRun) ==
    IF latestRun.id # previousState.latestRunId
    THEN IF latestRun.status = "in_progress"
         THEN [act |-> "gif", tag |-> "lets get started",
               record |-> StartedRecord(latestRun)]
         ELSE [act |-> "none"]
    ELSE IF previousState.status # "completed" /\ latestRun.status = "completed"
    THEN [act |-> "gif",
          tag |-> IF latestRun.conclusion = "success" THEN "success" ELSE "failure",
          record |-> SeenRecord(latestRun)]
    ELSE [act |-> "none"]

DecideKnown_NoPriorStatusTest(previousState, latestRun) ==
    IF latestRun.id # previousState.latestRunId
    THEN IF latestRun.status # "completed"
         THEN [act |-> "gif", tag |-> "lets get started",
               record |-> StartedRecord(latestRun)]
         ELSE [act |-> "none"]
    ELSE IF latestRun.status = "completed"
    THEN [act |-> "gif",
          tag |-> IF latestRun.conclusion = "success" THEN "success" ELSE "failure",
          record |-> SeenRecord(latestRun)]
    ELSE [act |-> "none"]

(* `if` where the code has `else if`: the completion test also runs after *)
(* the new-run test.                                                       *)
DecideKnown_IfNotElse(previousState, latestRun) ==
    IF latestRun.id # previousState.latestRunId /\ latestRun.status # "completed"
    THEN [act |-> "gif", tag |-> "lets get started",
          record |-> StartedRecord(latestRun)]
    ELSE IF previousState.status # "completed" /\ latestRun.status = "completed"
    THEN [act |-> "gif",
          tag |-> IF latestRun.conclusion = "success" THEN "success" ELSE "failure",
          record |-> SeenRecord(latestRun)]
    ELSE [act |-> "none"]

(* The decision of one pass on the latest run of a repository that has a   *)
(* record (main.js:284-314): the tag to fetch a gif for and the record to  *)
(* store after it, or nothing.                                             *)
DecideKnown(previousState, latestRun) ==
    IF latestRun.id # previousState.latestRunId
    THEN IF latestRun.status # "completed"
         THEN [act |-> "gif", tag |-> "lets get started",
               record |-> StartedRecord(latestRun)]
         ELSE [act |-> "none"]
    ELSE IF previousState.status # "completed" /\ latestRun.status = "completed"
    THEN [act |-> "gif",
          tag |-> IF latestRun.conclusion = "success" THEN "success" ELSE "failure",
          record |-> SeenRecord(latestRun)]
    ELSE [act |-> "none"]

(* A variant of the first-sight rule: the run is classified like any other *)
Decide_NoFirstSight(previousState, latestRun) ==
    IF previousState = Undefined
    THEN IF latestRun.status = "completed"
         THEN [act |-> "gif",
               tag |-> IF latestRun.conclusion = "success" THEN "success" ELSE "failure",
               record |-> SeenRecord(latestRun)]
         ELSE [act |-> "set", record |-> SeenRecord(latestRun)]
    ELSE DecideKnown(previousState, latestRun)

(* The decision of one pass (main.js:270-314) on the latest run, given the *)
(* value read from the map: first sight stores the record at once.         *)
Decide(previousState, latestRun) ==
    IF previousState = Undefined
    THEN [act |-> "set", record |-> SeenRecord(latestRun)]
    ELSE DecideKnown(previousState, latestRun)

(* A variant of the empty-list test: an empty list is recorded as "the    *)
(* repository has no runs".                                                *)
PassDecision_EmptyMeansNoRuns(runs, previousState) ==
    IF runs = <<>>
    THEN [act |-> "set",
          record |-> [latestRunId |-> 0, status |-> "none", conclusion |-> "null"]]
    ELSE Decide(previousState, runs[1])

(* What checkWorkflows does with the value of fetchWorkflowRuns            *)
(* (main.js:268-314): `if (runs.length === 0) continue`, else the decision *)
(* on runs[0].                                                             *)
PassDecision(runs, previousState) ==
    IF runs = <<>> THEN [act |-> "none"]
    ELSE Decide(previousState, runs[1])

----------------------------------------------------------------------------
(* Persistence (main.js:158-178) *)

MissingFile == [state |-> "missing"]
UnreadableFile == [state |-> "unreadable"]
CorruptFile == [state |-> "corrupt"]
JsonFile(list) == [state |-> "json", value |-> list]

Source(url, added) == [url |-> url, added |-> added]

(* sources.json as the app may find it at its first start *)
InitialFiles ==
    {MissingFile, UnreadableFile, CorruptFile, JsonFile(<<>>),
     JsonFile(<<Source("https://gitlab.com/a/b", 0)>>)}

(* A variant of the catch block that falls back to a sample list *)
loadSources_DefaultOnError(f) ==
    IF f.state = "json" THEN f.value
    ELSE IF f.state = "missing" THEN <<>>
    ELSE <<Source("https://github.com/a/b", 0)>>

(* loadSources, from the initial value [] of `sources`: a missing file     *)
(* leaves it, readFileSync or JSON.parse throwing resets it to []          *)
loadSources(f) ==
    IF f.state = "json" THEN f.value
    ELSE IF f.state = "missing" THEN <<>>
    ELSE <<>>

(* What fs.writeFileSync can do (main.js:173): write the file; fail at the *)
(* open (EISDIR, EPERM), which leaves the file as it was; fail in the      *)
(* write after the open has created or truncated the file (EFBIG, ENOSPC), *)
(* which leaves an empty file.                                             *)
WriteOutcomes == {"written", "refused", "truncated"}

(* saveSources: the write succeeds, or fails and is only logged *)
saveSources(list, f, outcome) ==
    CASE outcome = "written" -> JsonFile(list)
      [] outcome = "refused" -> f
      [] outcome = "truncated" -> CorruptFile

----------------------------------------------------------------------------
(* The executions of checkWorkflows *)

IdleCycle ==
    [pc |-> "idle", idx |-> 0, key |-> <<>>, retries |-> DefaultRetries,
     attempt |-> 0, requests |-> 0, transients |-> 0, slept |-> <<>>, previousState |-> Undefined, latestRun |-> Null,
     pending |-> Null, emitted |-> <<>>]

(* The first index >= i of the array whose url resolves (the loop's        *)
(* `if (!repoInfo) continue`), or 0 when the iterator is exhausted.        *)
RECURSIVE NextResolvable(_, _)
NextResolvable(list, i) ==
    IF i > Len(list) THEN 0
    ELSE IF extractRepoInfo(list[i].url) # Null THEN i
    ELSE NextResolvable(list, i + 1)

(* A variant of the loop: `break` where the code has `continue` *)
Iterate_StopAtUnresolvable(list, i) ==
    IF i > Len(list) \/ extractRepoInfo(list[i].url) = Null THEN IdleCycle
    ELSE [IdleCycle EXCEPT !.pc = "fetch", !.idx = i + 1,
                           !.key = SourceKey(extractRepoInfo(list[i].url)),
                           !.attempt = 1, !.requests = 1]

(* The for-of loop moves on from array position i (1-based): it calls      *)
(* fetchWorkflowRuns for the next resolvable source and is suspended in    *)
(* its first request, or the cycle ends.                                   *)
Iterate(list, i) ==
    LET j == NextResolvable(list, i)
    IN  IF j = 0 THEN IdleCycle
        ELSE [IdleCycle EXCEPT !.pc = "fetch", !.idx = j + 1,
                               !.key = SourceKey(extractRepoInfo(list[j].url)),
                               !.attempt = 1, !.requests = 1]

(* Claim-side classification of a response, used only in observations:     *)
(* timeout/abort, DNS failure and "fetch failed" are the network failures. *)
IsNetworkFailure(resp) == resp \in ThrownResponses

(* await new Promise(resolve => setTimeout(resolve, delay)) (main.js:227) *)
Sleep(cy, resp, delay) ==
    [cy EXCEPT !.pc = "backoff",
               !.transients = IF IsNetworkFailure(resp) THEN @ + 1 ELSE @,
               !.slept = Append(@, delay)]

(* The sleep is over: attempt++ and the loop test attempt <= retries       *)
(* (main.js:190).  The request of the next attempt is issued.              *)
Resume(cy) ==
    [cy EXCEPT !.pc = "fetch", !.attempt = @ + 1, !.requests = @ + 1]

Init ==
    /\ file \in InitialFiles
    /\ sources = loadSources(file)
    /\ workflowStates = EmptyMap
    /\ now = 1
    /\ cycle = [c \in Cycles |-> IdleCycle]
    /\ last = [op |-> "init"]

(* What a step that settles one attempt shows of it *)
AttemptObs(c, resp, out) ==
    [op |-> "fetch", c |-> c, key |-> cycle[c].key, resp |-> resp,
     retries |-> cycle[c].retries, idx |-> cycle[c].idx,
     attempt |-> cycle[c].attempt, requests |-> cycle[c].requests,
     transients |-> cycle[c].transients, slept |-> cycle[c].slept,
     returned |-> out.returns]

(* The setInterval callback (main.js:152-154) calls checkWorkflows, which  *)
(* is suspended in isNetworkAvailable.  Nothing stops a tick while an      *)
(* earlier cycle is still running.                                         *)
Tick(c) ==
    /\ cycle[c].pc = "idle"
    /\ \A d \in Cycles : d < c => cycle[d].pc # "idle"
    /\ cycle' = [cycle EXCEPT ![c] = [IdleCycle EXCEPT !.pc = "probe"]]
    /\ last' = [op |-> "tick", c |-> c]
    /\ UNCHANGED <<sources, workflowStates, file, now>>

(* isNetworkAvailable resolves (main.js:258-263) *)
ProbeReturn(c, resp) ==
    /\ cycle[c].pc = "probe"
    /\ cycle' = [cycle EXCEPT ![c] =
                    IF isNetworkAvailable(resp) THEN Iterate(sources, 1)
                    ELSE IdleCycle]
    /\ last' = [op |-> "probe", c |-> c, resp |-> resp,
                available |-> isNetworkAvailable(resp),
                states |-> workflowStates]
    /\ UNCHANGED <<sources, workflowStates, file, now>>

(* The pc at which an answer of the given kind is delivered: a rejection   *)
(* or a non-ok status settles `await fetch` (main.js:195); a body settles  *)
(* `await response.json()` (main.js:213), a second suspension.             *)
SettlesAt(resp) == IF resp.kind = "body" THEN "json" ELSE "fetch"

(* await fetch resolves with an ok status (main.js:195-205): the 10 s      *)
(* abort timer is cleared and the attempt is suspended in response.json()  *)
(* (main.js:213).  No tracked variable is read or written.                 *)
FetchHeaders(c) ==
    /\ cycle[c].pc = "fetch"
    /\ cycle' = [cycle EXCEPT ![c].pc = "json"]
    /\ last' = [op |-> "headers", c |-> c]
    /\ UNCHANGED <<sources, workflowStates, file, now>>

(* The current await of the attempt settles.  Either fetchWorkflowRuns     *)
(* sleeps before the next attempt, or it returns and checkWorkflows runs   *)
(* on (main.js:268-314) up to its next await.                              *)
FetchResponse(c, resp) ==
    LET cy == cycle[c]
        out == FetchAttempt(resp, cy.attempt, cy.retries)
        obs == AttemptObs(c, resp, out)
    IN
    /\ cy.pc = SettlesAt(resp)
    /\ IF Throws(out) THEN
          \* the rejection passes through checkWorkflows to the timer callback
          /\ cycle' = [cycle EXCEPT ![c] = IdleCycle]
          /\ last' = [obs EXCEPT !.op = "threw"]
          /\ UNCHANGED workflowStates
       ELSE IF ~out.returns THEN
          /\ cycle' = [cycle EXCEPT ![c] = Sleep(cy, resp, out.delay)]
          /\ last' = [obs EXCEPT !.op = "retry"] @@ [delay |-> out.delay]
          /\ UNCHANGED workflowStates
       ELSE IF ReturnsNonList(out) THEN
          \* runs = {}: runs.length is undefined, not 0 (main.js:268), and
          \* latestRun = runs[0] is undefined (main.js:270); reading
          \* latestRun.id (main.js:277 or 285) throws a TypeError before any
          \* workflowStates.set, which ends checkWorkflows and rejects the
          \* promise the timer callback awaits (main.js:153)
          /\ cycle' = [cycle EXCEPT ![c] = IdleCycle]
          /\ last' = [obs EXCEPT !.op = "typeerror"] @@ [value |-> out.value]
          /\ UNCHANGED workflowStates
       ELSE
          LET previousState == MapGet(workflowStates, cy.key)
              d == PassDecision(out.runs, previousState)
              \* an empty list is no pass over a run: the loop continues
              pass == IF out.runs = <<>>
                      THEN [runs |-> out.runs, previousState |-> previousState]
                      ELSE [runs |-> out.runs, previousState |-> previousState,
                            latestRun |-> out.runs[1]]
              ended == [passDone |-> out.runs # <<>>, emitted |-> <<>>]
          IN  CASE d.act = "set" ->
                    /\ workflowStates' = MapSet(workflowStates, cy.key, d.record)
                    /\ cycle' = [cycle EXCEPT ![c] = Iterate(sources, cy.idx)]
                    /\ last' = obs @@ pass @@ ended
                [] d.act = "gif" ->
                    \* await getRandomGif(tag): the notification is triggered
                    /\ cycle' = [cycle EXCEPT ![c] =
                                    [cy EXCEPT !.pc = "gif",
                                               !.previousState = previousState,
                                               !.latestRun = out.runs[1],
                                               !.pending = d,
                                               !.emitted = Append(@, d.tag)]]
                    /\ last' = obs @@ pass @@ [passDone |-> FALSE]
                    /\ UNCHANGED workflowStates
                [] d.act = "none" ->
                    /\ cycle' = [cycle EXCEPT ![c] = Iterate(sources, cy.idx)]
                    /\ last' = obs @@ pass @@ ended
                    /\ UNCHANGED workflowStates
    /\ UNCHANGED <<sources, file, now>>

(* The backoff timer fires.  When the loop test fails after a sleep the   *)
(* function falls to its final `return []` (main.js:234) and the caller    *)
(* moves on.                                                               *)
BackoffDone(c) ==
    /\ cycle[c].pc = "backoff"
    /\ IF cycle[c].attempt + 1 <= cycle[c].retries
       THEN /\ cycle' = [cycle EXCEPT ![c] = Resume(@)]
            /\ last' = [op |-> "backoff", c |-> c]
       ELSE /\ cycle' = [cycle EXCEPT ![c] = Iterate(sources, cycle[c].idx)]
            /\ last' = [op |-> "exhausted", c |-> c, runs |-> <<>>,
                        slept |-> cycle[c].slept]
    /\ UNCHANGED <<sources, workflowStates, file, now>>

(* The Giphy request resolves with an ok status (main.js:18-19):           *)
(* getRandomGif is suspended in res.json() (main.js:21).                   *)
GifHeaders(c) ==
    /\ cycle[c].pc = "gif"
    /\ cycle' = [cycle EXCEPT ![c].pc = "gifjson"]
    /\ last' = [op |-> "gifheaders", c |-> c]
    /\ UNCHANGED <<sources, workflowStates, file, now>>

(* getRandomGif resolves, from the rejected or not-ok request or from the  *)
(* body: the popup is created when a url came back, the record is stored,  *)
(* and the loop moves on.                                                  *)
GifReturn(c, resp) ==
    LET cy == cycle[c]
        gifData == getRandomGif(resp)
    IN
    /\ cy.pc = (IF resp.kind = "body" THEN "gifjson" ELSE "gif")
    /\ workflowStates' = MapSet(workflowStates, cy.key, cy.pending.record)
    /\ cycle' = [cycle EXCEPT ![c] = Iterate(sources, cy.idx)]
    /\ last' = [op |-> "gif", c |-> c, key |-> cy.key,
                previousState |-> cy.previousState, latestRun |-> cy.latestRun,
                emitted |-> cy.emitted, shown |-> gifData.url # "",
                passDone |-> TRUE]
    /\ UNCHANGED <<sources, file, now>>

----------------------------------------------------------------------------
(* The IPC handlers (main.js:505-535) *)

(* A variant of the duplicate test that finds nothing *)
SourceExists_Never(list, url) == FALSE

(* sources.some(source => source.url === url) (main.js:512) *)
SourceExists(list, url) == \E i \in 1..Len(list) : list[i].url = url

AddSource(url, outcome) ==
    LET repoInfo == extractRepoInfo(url)
        exists == SourceExists(sources, url)
        obs == [op |-> "add", url |-> url, before |-> sources]
    IN
    /\ IF repoInfo = Null THEN
          /\ last' = obs @@ [error |-> "Invalid GitHub URL"]
          /\ UNCHANGED <<sources, file, now>>
       ELSE IF exists THEN
          /\ last' = obs @@ [error |-> "Source already exists"]
          /\ UNCHANGED <<sources, file, now>>
       ELSE
          /\ now <= MaxClock
          /\ Len(sources) < MaxSources
          /\ sources' = Append(sources, Source(url, now))
          /\ file' = saveSources(sources', file, outcome)
          /\ now' = now + 1
          /\ last' = obs @@ [error |-> "none"]
    /\ UNCHANGED <<workflowStates, cycle>>

(* index is the JavaScript (0-based) index sent by the renderer *)
RemoveSource(index, outcome) ==
    /\ IF index >= 0 /\ index < Len(sources) THEN
          LET removed == sources[index + 1]
              repoInfo == extractRepoInfo(removed.url)
          IN  /\ sources' = SubSeq(sources, 1, index) \o
                            SubSeq(sources, index + 2, Len(sources))
              /\ file' = saveSources(sources', file, outcome)
              /\ workflowStates' =
                    IF repoInfo # Null
                    THEN MapDelete(workflowStates, SourceKey(repoInfo))
                    ELSE workflowStates
              /\ last' = [op |-> "remove", index |-> index, removed |-> removed,
                          before |-> sources]
       ELSE
          /\ last' = [op |-> "remove", index |-> index, removed |-> Null,
                      before |-> sources]
          /\ UNCHANGED <<sources, file, workflowStates>>
    /\ UNCHANGED <<now, cycle>>

(* Quit from the tray menu and a new start: the module state is rebuilt    *)
(* and loadSources reads the file.                                         *)
Restart ==
    /\ sources' = loadSources(file)
    /\ workflowStates' = EmptyMap
    /\ cycle' = [c \in Cycles |-> IdleCycle]
    /\ last' = [op |-> "restart"]
    /\ UNCHANGED <<file, now>>

(* One step of the program: the cycles in CycleSet, the environment's      *)
(* answers drawn from the given sets, the renderer's calls from UrlSet.    *)
Step(CycleSet, ApiSet, ProbeSet, GiphySet, UrlSet, WriteSet) ==
    \/ \E c \in CycleSet : Tick(c)
    \/ \E c \in CycleSet, resp \in ProbeSet : ProbeReturn(c, resp)
    \/ \E c \in CycleSet : FetchHeaders(c)
    \/ \E c \in CycleSet, resp \in ApiSet : FetchResponse(c, resp)
    \/ \E c \in CycleSet : BackoffDone(c)
    \/ \E c \in CycleSet : GifHeaders(c)
    \/ \E c \in CycleSet, resp \in GiphySet : GifReturn(c, resp)
    \/ \E url \in UrlSet, outcome \in WriteSet : AddSource(url, outcome)
    \/ \E index \in -1..MaxSources, outcome \in WriteSet : RemoveSource(index, outcome)
    \/ Restart

(* The sample of the environment's answers used where cycles overlap: one  *)
(* run, in progress and then completed.                                    *)
OverlapRuns ==
    {r \in WorkflowRuns :
        /\ \A id \in RunIds : r.id <= id
        /\ r.status # "queued"
        /\ r.conclusion \in {"null", "success"}}
OverlapResponses ==
    {[kind |-> "throw", err |-> FetchFailed], [kind |-> "status", status |-> 404]}
    \cup {[kind |-> "body", status |-> 200, body |-> [workflow_runs |-> l]] :
            l \in {<<>>} \cup {<<r>> : r \in OverlapRuns}}
OverlapProbes ==
    {[kind |-> "status", status |-> 200], [kind |-> "throw", err |-> FetchFailed]}
OverlapGiphy == {r \in GiphyResponses : r.kind # "status"}
OverlapUrls == {"https://github.com/a/b", "https://gitlab.com/a/b"}

(* The program: timer ticks start cycles whether or not an earlier cycle   *)
(* has finished.                                                           *)
Next == Step(Cycles, OverlapResponses, OverlapProbes, OverlapGiphy, OverlapUrls, {"written"})

Spec == Init /\ [][Next]_vars

----------------------------------------------------------------------------
(* fetchWorkflowRuns called on its own, as the tests call it, with every   *)
(* value of its `retries` parameter.                                       *)

KeyAB == SourceKey(extractRepoInfo("https://github.com/a/b"))

InitCall ==
    /\ file = MissingFile
    /\ sources = <<>>
    /\ workflowStates = EmptyMap
    /\ now = 1
    /\ \E r \in 1..MaxRetries :
          /\ cycle = [c \in Cycles |->
                        IF c = 1
                        THEN [IdleCycle EXCEPT !.pc = "fetch", !.key = KeyAB,
                                               !.retries = r, !.attempt = 1,
                                               !.requests = 1]
                        ELSE IdleCycle]
          /\ last = [op |-> "call", retries |-> r]

(* await fetch resolves with an ok status; the attempt awaits the body *)
CallHeaders ==
    /\ cycle[1].pc = "fetch"
    /\ cycle' = [cycle EXCEPT ![1].pc = "json"]
    /\ last' = [op |-> "headers", c |-> 1]
    /\ UNCHANGED <<sources, workflowStates, file, now>>

(* The current await of the attempt settles. *)
CallResponse(resp) ==
    LET cy == cycle[1]
        out == FetchAttempt(resp, cy.attempt, cy.retries)
        obs == AttemptObs(1, resp, out)
    IN
    /\ cy.pc = SettlesAt(resp)
    /\ IF Throws(out) THEN
          /\ cycle' = [cycle EXCEPT ![1].pc = "threw"]
          /\ last' = [obs EXCEPT !.op = "threw"]
       ELSE IF ~out.returns THEN
          /\ cycle' = [cycle EXCEPT ![1] = Sleep(cy, resp, out.delay)]
          /\ last' = [obs EXCEPT !.op = "retry"] @@ [delay |-> out.delay]
       ELSE
          /\ cycle' = [cycle EXCEPT ![1].pc = "returned"]
          /\ last' = obs @@ (IF ReturnsNonList(out) THEN [value |-> out.value]
                                                    ELSE [runs |-> out.runs])
    /\ UNCHANGED <<sources, workflowStates, file, now>>

(* The sleep is over: next attempt, or the final `return []`. *)
CallBackoffDone ==
    /\ cycle[1].pc = "backoff"
    /\ IF cycle[1].attempt + 1 <= cycle[1].retries
       THEN /\ cycle' = [cycle EXCEPT ![1] = Resume(@)]
            /\ last' = [op |-> "backoff", c |-> 1]
       ELSE /\ cycle' = [cycle EXCEPT ![1].pc = "returned"]
            /\ last' = [op |-> "exhausted", c |-> 1, runs |-> <<>>,
                        slept |-> cycle[1].slept]
    /\ UNCHANGED <<sources, workflowStates, file, now>>

(* `await fetch` settles: with an ok status, a non-ok status or a rejection *)
CallSettle ==
    \/ CallHeaders
    \/ \E resp \in Responses \ BodyResponses : CallResponse(resp)

(* `await response.json()` settles *)
CallBody == \E resp \in BodyResponses : CallResponse(resp)

NextCall ==
    \/ CallSettle
    \/ CallBody
    \/ CallBackoffDone

(* `await fetch` settles, being aborted after 10 s at the latest           *)
(* (main.js:193), and every backoff timer fires.  The abort timer is       *)
(* cleared before response.json() (main.js:203): nothing in the program    *)
(* makes the read of the body end.                                         *)
SpecCall ==
    InitCall /\ [][NextCall]_vars /\ WF_vars(CallSettle) /\ WF_vars(CallBackoffDone)

(* Cycles finish before the next tick: one execution of checkWorkflows at  *)
(* a time, every answer of the environment, one repository under two urls. *)
SerialUrls == Urls \ {"https://github.com/c/d"}

NextSerial ==
    Step({1}, Responses, ProbeResponses, GiphyResponses, SerialUrls, {"written"})

SpecSerial == Init /\ [][NextSerial]_vars

(* A repository whose newest run is never reported before it has          *)
(* completed: the API answers with the older run in any status or with the *)
(* newest run completed, or fails.                                         *)
FastRun == CHOOSE id \in RunIds : \A other \in RunIds : other <= id

ReportsRun(resp) ==
    /\ resp.kind = "body"
    /\ "workflow_runs" \in DOMAIN resp.body
    /\ "isArray" \notin DOMAIN resp.body
    /\ resp.body.workflow_runs # <<>>

SilentResponses ==
    {resp \in Responses :
        (ReportsRun(resp) /\ resp.body.workflow_runs[1].id = FastRun) =>
            resp.body.workflow_runs[1].status = "completed"}

NextSilent ==
    Step({1}, SilentResponses, ProbeResponses, GiphyResponses, SerialUrls, {"written"})

SpecSilent == Init /\ [][NextSilent]_vars

(* The source store alone: the renderer's calls with every url, writes     *)
(* that succeed or fail, and restarts; no cycle runs.                      *)
NextStore ==
    \/ \E url \in Urls, outcome \in WriteOutcomes : AddSource(url, outcome)
    \/ \E index \in -1..MaxSources, outcome \in WriteOutcomes :
          RemoveSource(index, outcome)
    \/ Restart

SpecStore == Init /\ [][NextStore]_vars

(* extractRepoInfo alone, called on strings built as                       *)
(* [scheme] host /segment /segment ...; an empty segment gives a double or *)
(* trailing slash, the empty host with no segment the empty string.        *)
NotGithubCom == <<"n","o","t">> \o GithubCom
NotAUrl == <<"n","o","t","-","a","-","u","r","l">>
Schemes == {<<>>, Https}
Hosts == {GithubCom, GitlabCom, NotGithubCom, NotAUrl, <<>>}
Segments == {<<>>, <<"a">>, <<"b">>, GithubCom}
Paths == UNION {[1..n -> Segments] : n \in 0..MaxSegments}

RECURSIVE JoinPath(_)
JoinPath(path) ==
    IF path = <<>> THEN <<>>
    ELSE <<"/">> \o Head(path) \o JoinPath(Tail(path))

InitResolver ==
    /\ file = MissingFile
    /\ sources = <<>>
    /\ workflowStates = EmptyMap
    /\ now = 1
    /\ cycle = [c \in Cycles |-> IdleCycle]
    /\ last = [op |-> "init"]

Resolve(scheme, host, path) ==
    LET githubUrl == scheme \o host \o JoinPath(path)
    IN  /\ last' = [op |-> "resolve", scheme |-> scheme, host |-> host,
                    path |-> path, githubUrl |-> githubUrl,
                    result |-> Match(githubUrl),
                    again |-> Match(githubUrl)]
        /\ UNCHANGED <<sources, workflowStates, file, now, cycle>>

(* The empty host stands for the empty string only *)
Identifiers ==
    {id \in [scheme : Schemes, host : Hosts, path : Paths] :
        id.host = <<>> => (id.scheme = <<>> /\ id.path = <<>>)}

NextResolver ==
    \E id \in Identifiers : Resolve(id.scheme, id.host, id.path)

SpecResolver == InitResolver /\ [][NextResolver]_vars

----------------------------------------------------------------------------
(* Observations used by the properties *)

(* The step just taken is a pass of checkWorkflows over a non-empty run    *)
(* list: it read previousState and latestRun.                              *)
PassObserved == last.op \in {"fetch", "gif"} /\ "latestRun" \in DOMAIN last

(* ... and the pass ended in this step (the loop moved on). *)
PassEnded == PassObserved /\ last.passDone

(* The step just taken settled one attempt of fetchWorkflowRuns. *)
AttemptObserved == last.op \in {"fetch", "retry"}

(* The record of key k holds exactly the id, status and conclusion of run. *)
RecordIs(k, run) ==
    /\ k \in DOMAIN workflowStates
    /\ workflowStates[k].latestRunId = run.id
    /\ workflowStates[k].status = run.status
    /\ workflowStates[k].conclusion = run.conclusion

Known == PassObserved /\ last.previousState # Undefined

SameRun == Known /\ last.latestRun.id = last.previousState.latestRunId

Finished ==
    SameRun /\ last.previousState.status # "completed"
            /\ last.latestRun.status = "completed"

(* In the step that obtains the runs the pass calls getRandomGif(tag) and  *)
(* is suspended; in the step that ends the pass exactly that one call was  *)
(* made and the record is the latest run.                                  *)
EmitsOnce(tag) ==
    /\ last.op = "fetch" =>
          /\ ~last.passDone
          /\ cycle[last.c].pc = "gif"
          /\ cycle[last.c].emitted = <<tag>>
    /\ last.op = "gif" =>
          /\ last.emitted = <<tag>>
          /\ RecordIs(last.key, last.latestRun)

(* C1: a pass over a non-empty run list for a key without a record ends in *)
(* the same step, stores the latest run's id, status and conclusion under  *)
(* the key and calls getRandomGif for no tag, whatever the run is.         *)
C1_FirstSight ==
    (PassObserved /\ last.previousState = Undefined) =>
        /\ last.op = "fetch"
        /\ last.passDone
        /\ last.emitted = <<>>
        /\ cycle[last.c].pc # "gif"
        /\ RecordIs(last.key, last.latestRun)

C1_Witness ==
    /\ PassEnded
    /\ last.previousState = Undefined
    /\ last.latestRun.status = "completed"
    /\ last.latestRun.conclusion = "failure"
    /\ RecordIs(last.key, last.latestRun)

(* C2: when the latest run is the tracked run, the record is not completed *)
(* and the run is completed, the pass emits exactly one notification,      *)
(* "success" for conclusion success and "failure" otherwise, and stores    *)
(* the latest run.                                                         *)
C2_Completion ==
    Finished =>
        EmitsOnce(IF last.latestRun.conclusion = "success"
                  THEN "success" ELSE "failure")

(* The sequence [R1 in_progress, R1 completed/success]: the record read by *)
(* the second pass is the one the first-sight pass stored.                 *)
C2_Witness ==
    /\ PassEnded
    /\ last.op = "gif"
    /\ last.previousState =
          [latestRunId |-> 5, status |-> "in_progress", conclusion |-> "null"]
    /\ last.latestRun =
          [id |-> 5, status |-> "completed", conclusion |-> "success"]
    /\ last.emitted = <<"success">>

(* C3: when a record exists, the latest run has another id and is not      *)
(* completed, the pass emits exactly one "started" notification (the gif   *)
(* tag 'lets get started') and stores the latest run.                      *)
C3_NewRun ==
    (Known /\ ~SameRun /\ last.latestRun.status # "completed") =>
        EmitsOnce("lets get started")

C3_Witness ==
    /\ PassEnded
    /\ last.op = "gif"
    /\ last.previousState.latestRunId = 5
    /\ last.previousState.status = "in_progress"
    /\ last.latestRun = [id |-> 6, status |-> "in_progress", conclusion |-> "null"]
    /\ last.emitted = <<"lets get started">>
    /\ RecordIs(last.key, last.latestRun)

(* C4: when a record exists, the latest run has another id and is already  *)
(* completed, the pass stores the latest run and emits no notification.    *)
C4_SupersededCompleted ==
    (Known /\ ~SameRun /\ last.latestRun.status = "completed") =>
        /\ last.passDone
        /\ last.emitted = <<>>
        /\ RecordIs(last.key, last.latestRun)

(* C5: when a record exists, the latest run is the tracked run and it is   *)
(* not the case that the record is not completed while the run is, the     *)
(* pass ends at once, leaves the record as it read it and emits nothing.   *)
C5_NoOp ==
    (SameRun /\ ~Finished) =>
        /\ last.op = "fetch"
        /\ last.passDone
        /\ last.emitted = <<>>
        /\ cycle[last.c].pc # "gif"
        /\ MapGet(workflowStates, last.key) = last.previousState

C5_Witness ==
    /\ PassEnded
    /\ SameRun
    /\ last.previousState.status = "completed"
    /\ last.latestRun.status = "in_progress"
    /\ MapGet(workflowStates, last.key) = last.previousState

(* C6: at most one execution of checkWorkflows is in progress. *)
C6_NonOverlap == Cardinality({c \in Cycles : cycle[c].pc # "idle"}) <= 1

(* C7: every key of the workflow state map is the key of a stored source.  *)
StoredKeys ==
    {SourceKey(extractRepoInfo(sources[i].url)) :
        i \in {j \in 1..Len(sources) : extractRepoInfo(sources[j].url) # Null}}

C7_MapMembership == DOMAIN workflowStates \subseteq StoredKeys

(* C8: an attempt below the maximum that meets HTTP 403 does not return:   *)
(* the client sleeps and tries again.                                      *)
C8_RateLimitRetried ==
    (/\ AttemptObserved
     /\ last.resp.kind = "status"
     /\ last.resp.status = 403
     /\ last.attempt < DefaultRetries) =>
        /\ last.op = "retry"
        /\ cycle[last.c].pc = "backoff"

(* Failures the design calls non-transient: a non-ok status other than the *)
(* rate limit, a body that does not parse.                                 *)
NonTransient(resp) ==
    \/ resp.kind = "status" /\ resp.status # 403
    \/ resp.kind = "body" /\ "malformed" \in DOMAIN resp.body

(* C9: an attempt that fails with a non-transient error returns the empty  *)
(* sequence at once: no sleep, no further request of this call, whatever   *)
(* the attempt number.                                                     *)
C9_NonTransientNotRetried ==
    (AttemptObserved /\ NonTransient(last.resp)) =>
        /\ last.op = "fetch"
        /\ last.returned
        /\ last.runs = <<>>
        /\ last.requests = last.attempt
        /\ cycle[last.c].pc \in {"idle", "fetch"}
        /\ cycle[last.c].pc = "fetch" => cycle[last.c].requests = 1

(* A body that does not parse and whose text holds "fetch failed" *)
QuotesFetchFailed(resp) ==
    /\ resp.kind = "body"
    /\ "malformed" \in DOMAIN resp.body
    /\ Includes(resp.body.text, <<"fetch", "failed">>)

(* The part of C9 the code keeps: a non-ok status other than 403, and a    *)
(* body that does not parse unless its text holds "fetch failed", return   *)
(* the empty sequence at once.                                             *)
ClientErrorNotRetried ==
    (AttemptObserved /\ NonTransient(last.resp)
                     /\ ~QuotesFetchFailed(last.resp)) =>
        /\ last.op = "fetch"
        /\ last.returned
        /\ last.runs = <<>>
        /\ last.requests = last.attempt

(* The attempt the code retries although its failure is not transient *)
ParseErrorRetried ==
    /\ last.op = "retry"
    /\ QuotesFetchFailed(last.resp)
    /\ last.attempt = 1
    /\ last.delay = BackoffDelay(1)
    /\ cycle[last.c].pc = "backoff"

C9_Witness ==
    /\ AttemptObserved
    /\ last.resp = [kind |-> "status", status |-> 404]
    /\ last.attempt = 2
    /\ last.returned
    /\ last.runs = <<>>

C11_Bounded ==
    /\ cycle[1].requests <= cycle[1].retries
    /\ last.op # "exhausted"
    /\ (/\ AttemptObserved
        /\ IsNetworkFailure(last.resp)
        /\ last.transients = last.attempt - 1
        /\ last.attempt = last.retries) =>
            /\ last.op = "fetch"
            /\ last.returned
            /\ last.runs = <<>>
            /\ last.requests = last.retries
            /\ last.transients = last.retries - 1
            /\ Len(cycle[1].slept) = last.retries - 1
            /\ cycle[1].pc = "returned"

C11_BoundedTermination == []C11_Bounded /\ <>(cycle[1].pc = "returned")

C11_Witness ==
    /\ AttemptObserved
    /\ IsNetworkFailure(last.resp)
    /\ last.retries = DefaultRetries
    /\ last.attempt = DefaultRetries
    /\ last.transients = DefaultRetries - 1
    /\ last.returned
    /\ last.runs = <<>>
    /\ cycle[1].pc = "returned"

(* Responses that are failures of an attempt: a thrown error, a non-ok     *)
(* status, a body that does not parse.                                     *)
IsFailure(resp) ==
    \/ resp.kind \in {"throw", "status"}
    \/ resp.kind = "body" /\ "malformed" \in DOMAIN resp.body

(* A body that parses and holds no list of runs: the key is absent, or its *)
(* value is not a list.                                                    *)
BodyWithoutList(resp) ==
    /\ resp.kind = "body"
    /\ \/ DOMAIN resp.body = {"message"}
       \/ "isArray" \in DOMAIN resp.body

(* The part of C12 about errors: no error leaves fetchWorkflowRuns, and    *)
(* after a thrown error, a non-ok status or a body that does not parse the *)
(* call sleeps for another attempt or returns the empty sequence.          *)
NeverThrows ==
    /\ last.op # "threw"
    /\ cycle[1].pc # "threw"
    /\ (AttemptObserved /\ last.returned /\ IsFailure(last.resp)) =>
          /\ last.op = "fetch"
          /\ "runs" \in DOMAIN last
          /\ last.runs = <<>>

(* C12: whatever an attempt meets, no error leaves fetchWorkflowRuns: the  *)
(* call sleeps for another attempt or returns a sequence of runs, which is *)
(* empty after every failure and for a body without a workflow_runs list.  *)
C12_NeverThrows ==
    /\ NeverThrows
    /\ (AttemptObserved /\ last.returned) =>
          /\ last.op = "fetch"
          /\ "runs" \in DOMAIN last
          /\ last.runs \in {<<>>} \cup {<<r>> : r \in WorkflowRuns}
    /\ (AttemptObserved /\ BodyWithoutList(last.resp)) =>
          /\ last.returned
          /\ "runs" \in DOMAIN last
          /\ last.runs = <<>>

C12_Witness ==
    /\ AttemptObserved
    /\ last.resp.kind = "body"
    /\ "malformed" \in DOMAIN last.resp.body
    /\ last.attempt = last.retries
    /\ last.attempt = DefaultRetries
    /\ last.returned
    /\ last.runs = <<>>
    /\ cycle[1].pc = "returned"

(* C13: the delay slept after failed attempt n is min(1000 * 2^(n-1),      *)
(* 30000): 1000 after attempt 1, 2000 after attempt 2, never less than the *)
(* delay before it, never more than 30000.                                 *)
C13_BackoffDelay ==
    /\ last.op = "retry" =>
          LET n == last.attempt
              d == last.delay
          IN  /\ n >= 1
              /\ n = 1 => d = 1000
              /\ n = 2 => d = 2000
              /\ IF 1000 * 2 ^ (n - 1) < 30000
                 THEN d = 1000 * 2 ^ (n - 1)
                 ELSE d = 30000
              /\ d <= 30000
              /\ Len(cycle[1].slept) = n
              /\ cycle[1].slept[n] = d
    /\ \A i \in 1..(Len(cycle[1].slept) - 1) :
          cycle[1].slept[i] <= cycle[1].slept[i + 1]

C13_Witness ==
    /\ last.op = "retry"
    /\ last.attempt = 6
    /\ last.delay = 30000
    /\ cycle[1].slept = <<1000, 2000, 4000, 8000, 16000, 30000>>

(* The positions >= i of the stored sources whose url resolves *)
Later(i) ==
    {j \in i..Len(sources) : extractRepoInfo(sources[j].url) # Null}

(* Cycle c is suspended in the first request for the first resolvable      *)
(* source at a position >= i, or has ended when there is none.             *)
PollsNextFrom(c, i) ==
    IF Later(i) = {} THEN cycle[c].pc = "idle"
    ELSE LET j == CHOOSE x \in Later(i) : \A y \in Later(i) : x <= y
         IN  /\ cycle[c].pc = "fetch"
             /\ cycle[c].key = SourceKey(extractRepoInfo(sources[j].url))
             /\ cycle[c].idx = j + 1
             /\ cycle[c].attempt = 1
             /\ cycle[c].requests = 1

(* C14: when the fetch of a source comes back empty (after retries or a    *)
(* non-transient error) the cycle polls the next stored source that        *)
(* resolves, skipping the ones that do not; the same at the start of the   *)
(* loop; and no error leaves the cycle.                                    *)
C14_FailureIsolation ==
    /\ last.op # "threw"
    /\ last.op = "typeerror" => (ReturnsNonList(last) /\ ~IsFailure(last.resp))
    /\ (last.op = "fetch" /\ last.returned /\ last.runs = <<>>) =>
          PollsNextFrom(last.c, last.idx)
    /\ (last.op = "probe" /\ last.available) => PollsNextFrom(last.c, 1)

C14_Witness ==
    /\ last.op = "fetch"
    /\ last.resp = [kind |-> "status", status |-> 404]
    /\ last.returned
    /\ last.runs = <<>>
    /\ last.idx = 2
    /\ Len(sources) = 2
    /\ cycle[last.c].pc = "fetch"
    /\ cycle[last.c].idx = 3

(* C15: a pass whose fetch returns the empty sequence leaves the record of *)
(* the repository, present or absent, as it was and emits nothing.         *)
C15_EmptyIsNoInformation ==
    (last.op = "fetch" /\ last.returned /\ last.runs = <<>>) =>
        /\ MapGet(workflowStates, last.key) = last.previousState
        /\ last.emitted = <<>>
        /\ cycle[last.c].pc # "gif"

C15_Witness ==
    /\ last.op = "fetch"
    /\ last.returned
    /\ last.runs = <<>>
    /\ IsFailure(last.resp)
    /\ last.previousState # Undefined
    /\ MapGet(workflowStates, last.key) = last.previousState

(* Cycle c is suspended in getRandomGif, in its request or in its body *)
AwaitsGif(c) == cycle[c].pc \in {"gif", "gifjson"}

(* C16: no cycle waits for getRandomGif while a later stored source is     *)
(* still to be polled.                                                     *)
C16_NotificationDoesNotStall ==
    \A c \in Cycles :
        AwaitsGif(c) => NextResolvable(sources, cycle[c].idx) = 0

(* C17: add-source rejects, leaving the list as it was, a url that does    *)
(* not resolve and a url that is in the list already; otherwise it appends *)
(* one {url, added} entry at the end.  No url occurs twice in the list.    *)
C17_AddSourceValidation ==
    /\ last.op = "add" =>
          IF extractRepoInfo(last.url) = Null
          THEN last.error = "Invalid GitHub URL" /\ sources = last.before
          ELSE IF \E i \in 1..Len(last.before) : last.before[i].url = last.url
          THEN last.error = "Source already exists" /\ sources = last.before
          ELSE /\ last.error = "none"
               /\ Len(sources) = Len(last.before) + 1
               /\ SubSeq(sources, 1, Len(last.before)) = last.before
               /\ DOMAIN sources[Len(sources)] = {"url", "added"}
               /\ sources[Len(sources)].url = last.url
    /\ \A i, j \in 1..Len(sources) :
          i # j => sources[i].url # sources[j].url

C17_Witness ==
    /\ last.op = "add"
    /\ last.error = "Source already exists"
    /\ last.url = "https://github.com/a/b"
    /\ sources = last.before
    /\ \E i \in 1..Len(sources) : sources[i].url = last.url

(* C18: the probe answers true exactly when a response arrives with a     *)
(* status below 500; a cycle whose probe answers false ends there: it is   *)
(* not suspended in any request, it has emitted nothing and the map is as  *)
(* it was.                                                                 *)
C18_ReachabilityGate ==
    last.op = "probe" =>
        /\ last.available =
              (last.resp.kind = "status" /\ last.resp.status < 500)
        /\ ~last.available =>
              /\ cycle[last.c] = IdleCycle
              /\ cycle[last.c].requests = 0
              /\ cycle[last.c].emitted = <<>>
              /\ workflowStates = last.states

C18_Witness ==
    /\ last.op = "probe"
    /\ last.resp = [kind |-> "status", status |-> 500]
    /\ ~last.available
    /\ NextResolvable(sources, 1) # 0
    /\ workflowStates # EmptyMap
    /\ cycle[last.c].pc = "idle"

(* C20: after a load that finds the file missing, unreadable or not valid  *)
(* JSON the source list is empty; a cycle that finds the list empty ends   *)
(* right after its probe, having polled nothing.                           *)
C20_LoadDegradation ==
    /\ (last.op \in {"init", "restart"}
        /\ file.state \in {"missing", "unreadable", "corrupt"}) =>
          sources = <<>>
    /\ (last.op = "probe" /\ last.available /\ sources = <<>>) =>
          /\ cycle[last.c] = IdleCycle
          /\ cycle[last.c].requests = 0

C20_Witness ==
    /\ last.op = "probe"
    /\ last.available
    /\ file.state \in {"unreadable", "corrupt"}
    /\ sources = <<>>
    /\ cycle[last.c].pc = "idle"

(* C19: for [scheme://]github.com/<owner>/<repo>[/more...] with non-empty  *)
(* owner and repo the resolver returns the first two path segments; for a  *)
(* different host, or without a non-empty repo segment, it returns null;   *)
(* a second call returns the same.                                         *)
C19_Resolver ==
    last.op = "resolve" =>
        /\ last.again = last.result
        /\ IF /\ last.host = GithubCom
              /\ Len(last.path) >= 2
              /\ last.path[1] # <<>>
              /\ last.path[2] # <<>>
           THEN last.result = [owner |-> last.path[1], repo |-> last.path[2]]
           ELSE (\/ last.host # GithubCom
                 \/ Len(last.path) < 2
                 \/ last.path[2] = <<>>) => last.result = Null

(* The part of C19 that does not speak of other hosts *)
ResolverOnGithubCom ==
    (last.op = "resolve" /\ last.host = GithubCom) => C19_Resolver

(* C21: a run that is completed whenever it is reported causes no          *)
(* notification, neither in the pass that first meets it under a record of *)
(* another run nor in any later pass: no getRandomGif call is made for it. *)
C21_SilentFastRun ==
    /\ \A c \in Cycles :
          AwaitsGif(c) => cycle[c].latestRun.id # FastRun
    /\ (PassObserved /\ last.latestRun.id = FastRun) =>
          /\ last.latestRun.status = "completed"
          /\ last.passDone
          /\ last.emitted = <<>>

C21_Witness ==
    /\ PassEnded
    /\ last.previousState # Undefined
    /\ last.previousState.latestRunId = 5
    /\ last.previousState.status = "in_progress"
    /\ last.latestRun = [id |-> 6, status |-> "completed", conclusion |-> "success"]
    /\ last.emitted = <<>>
    /\ cycle[last.c].emitted = <<>>

(* The stored sources the for-of loop of cycle c has still to visit: the   *)
(* iterator's next position is cycle[c].idx.                               *)
Pending(c, list) == {list[j] : j \in cycle[c].idx..Len(list)}

Suspended(c) == cycle[c].pc \in {"fetch", "json", "backoff", "gif", "gifjson"}

(* C22: a remove-source handled while a cycle is suspended takes nothing   *)
(* but the removed source from what the cycle has still to poll, so that   *)
(* every source that stays in the store is polled once, in stored order.   *)
C22_EverySourcePolled ==
    (last.op = "remove" /\ last.removed # Null) =>
        \A c \in Cycles :
            Suspended(c) =>
                Pending(c, sources) = Pending(c, last.before) \ {last.removed}

(* C23: no two executions of checkWorkflows are both calling getRandomGif  *)
(* for the same observation (same key, same run reported with the same     *)
(* status): a transition of a run is notified once however many timer      *)
(* ticks observe it.                                                       *)
C23_NoDuplicateNotification ==
    \A c, d \in Cycles :
        (/\ c # d
         /\ AwaitsGif(c)
         /\ AwaitsGif(d)
         /\ cycle[c].key = cycle[d].key
         /\ cycle[c].latestRun = cycle[d].latestRun)
        => cycle[c].pending.tag # cycle[d].pending.tag

(* C24: no two stored sources resolve to the same key, so that a removal   *)
(* never deletes the record another stored source still relies on.         *)
C24_OneSourcePerKey ==
    \A i, j \in 1..Len(sources) :
        (/\ i # j
         /\ extractRepoInfo(sources[i].url) # Null
         /\ extractRepoInfo(sources[j].url) # Null)
        => SourceKey(extractRepoInfo(sources[i].url))
             # SourceKey(extractRepoInfo(sources[j].url))

====
